---- MODULE Spec2Model ----
(***************************************************************************)
(* The D2Q9 lattice Boltzmann solver (LBMSolver) and the streamline loop   *)
(* of FluidCanvas, as a state machine.                                     *)
(*                                                                         *)
(* Numbers.  The source computes in IEEE floating point and keeps every    *)
(* field in a Float32Array, whose stores round to the nearest value the    *)
(* array can hold.  The model keeps every stored number as an integer      *)
(* count of 1/Unit and rounds each stored result to the nearest count, so  *)
(* that a rounding step is part of every store, as it is in the source.    *)
(* Unit = 180 makes the lattice weights (4/9, 1/9, 1/36) and the velocity  *)
(* ceiling 0.35 exact counts.  Values are finite: no input of the model    *)
(* is NaN or infinite and none overflows.                                  *)
(***************************************************************************)
EXTENDS Integers, Sequences, FiniteSets, TLC

VARIABLES
  status,     \* "ok": the constructor returned an instance; "RangeError": it threw
  width, height, viscosity, omega,
  rho, ux, uy,        \* macroscopic fields, cell index -> count of 1/Unit
  bufs,       \* the two population buffers the constructor allocates
  f, fNew,    \* which buffer of bufs this.f and this.fNew refer to
  arrays,     \* the boolean arrays that exist: the constructor's own and the callers'
  barrier,    \* which array of arrays this.barrier refers to
  lastArg,    \* history: the array id given to the last setObstacles call
  steps,      \* history: completed step calls
  allRest,    \* history: every step so far was step(0)
  maskLate,   \* history: a setObstacles call was accepted after the first step
  last,       \* history: what the last step read and computed at each cell it visited
  pre,        \* history: ux, uy, rho as they were when the last step began
  ctorViscosity,  \* history: the viscosity the constructor was given
  maskAsPassed,   \* history: the contents this.barrier had when it was assigned
  lastWritten,    \* history: the buffer of bufs the last step's passes wrote
  tpc,        \* streamline drawing: "idle", "rows" (at the seed loop), "loop" (in a trace)
  startY,     \* the seed loop's row
  cx, cy,     \* the trace's position, in counts of 1/PosUnit
  tstep,      \* the trace loop's counter
  iters,      \* history: loop bodies the trace has entered
  seed,       \* history: the point given to moveTo
  path,       \* history: the points given to lineTo, in order
  stoppedAtSeed,  \* history: some trace met a stop test at its seed
  phase,      \* inside a step call: "stream" (Pass 1), "collide" (Pass 2); else "idle"
  idxAt,      \* the cell the running pass visits next
  arg,        \* the inletSpeed of the running step call
  fStart,     \* history: the contents of the current buffer when the step call began
  streamed,   \* history: the cells Pass 1 of this call has visited
  collided,   \* history: the cells Pass 2 of this call has visited
  mounted,    \* App shows the FluidCanvas (mode is SIMULATION)
  props,      \* FluidCanvas: the props of the last commit
  gl,         \* glRef.current is set: the canvas gave a WebGL2 context
  pending,    \* the animation frame callbacks requested and neither run nor cancelled
  requestRef, \* requestRef.current
  fpc,        \* where animate is: "idle" (not running), "batch", "render",
              \* "streamlines", "tracing", "schedule"
  env,        \* the props the running animate closed over
  batchDone,  \* animate's step loop counter
  frames,     \* history: frames completed
  uploaded,   \* history: the ux and uy arrays the renderer read last
  uploadedAt, \* history: the step phase and the loop counter at that read
  frameStart  \* history: the solver's fields and step count when the frame began

solverVars == <<status, width, height, viscosity, omega, rho, ux, uy, bufs, f, fNew,
                arrays, barrier>>
histVars == <<lastArg, steps, allRest, maskLate, last, pre, ctorViscosity, maskAsPassed,
              lastWritten>>
traceVars == <<tpc, startY, cx, cy, tstep, iters, seed, path, stoppedAtSeed>>
passVars == <<phase, idxAt, arg, fStart, streamed, collided>>
driverVars == <<mounted, props, gl, pending, requestRef, fpc, env, batchDone, frames, uploaded, uploadedAt,
                frameStart>>
vars == <<solverVars, histVars, traceVars, passVars, driverVars>>

\* ------------------------------------------------------------------ numbers

Unit == 36 * 5

Abs(n) == IF n < 0 THEN -n ELSE n

\* n / d to the nearest count (d # 0)
Round(n, d) ==
  IF d > 0 THEN (2 * n + d) \div (2 * d) ELSE (-(2 * n) - d) \div (-(2 * d))

RECURSIVE SqrtFloor(_, _, _)
SqrtFloor(n, lo, hi) ==
  IF lo >= hi THEN lo
  ELSE LET mid == (lo + hi + 1) \div 2
       IN IF mid * mid <= n THEN SqrtFloor(n, mid, hi) ELSE SqrtFloor(n, lo, mid - 1)

\* Math.sqrt of n (n >= 0), to the nearest count
Sqrt(n) ==
  LET r == SqrtFloor(n, 0, 46340) IN IF n - r * r > r THEN r + 1 ELSE r

\* ------------------------------------------------------------------ D2Q9 constants

N_DISCRETE_VELOCITIES == 9
Dirs == 0 .. (N_DISCRETE_VELOCITIES - 1)

EX == [i \in Dirs |-> <<0, 1, 0, -1, 0, 1, -1, -1, 1>>[i + 1]]
EY == [i \in Dirs |-> <<0, 0, 1, 0, -1, 1, 1, -1, -1>>[i + 1]]
\* W[i] = WNum[i] / WDen[i]
WNum == [i \in Dirs |-> <<4, 1, 1, 1, 1, 1, 1, 1, 1>>[i + 1]]
WDen == [i \in Dirs |-> <<9, 9, 9, 9, 9, 36, 36, 36, 36>>[i + 1]]
\* a faulty variant of W: every direction gets the same weight
WUniform == [i \in Dirs |-> Unit \div N_DISCRETE_VELOCITIES]

\* W[i] as a count of 1/Unit: what this.f[i][j] = W[i] stores
W == [i \in Dirs |-> Round(WNum[i] * Unit, WDen[i])]
\* a faulty variant of OPPOSITE: the diagonals mirrored in x instead of reversed
OPPOSITEMirrored == [i \in Dirs |-> <<0, 3, 4, 1, 2, 6, 5, 8, 7>>[i + 1]]

OPPOSITE == [i \in Dirs |-> <<0, 3, 4, 1, 2, 7, 8, 5, 6>>[i + 1]]

\* maxU = 0.35 as a count of 1/Unit
maxU == (35 * Unit) \div 100

\* ------------------------------------------------------------------ bounds and inputs

GridW == 3
GridH == 3
MaxSteps == 2

\* constructor arguments (width, height)
Dims == {<<GridW, GridH>>, <<0, GridH>>, <<-2, -3>>, <<-1, GridH>>}
\* viscosities 0.1 and 0.05
Viscosities == {Unit \div 10, Unit \div 20}
\* inlet speeds 0, 0.1 and 1.0
InletSpeeds == {0, Unit \div 10, Unit}

OwnId == "own"
MaskIds == {"cell", "column", "row", "all", "wrong"}

\* the grids the streamlines are drawn on, and the calls made between frames
TraceW == 3
TraceH == 5
TraceMaxSteps == 3
TraceDims == {<<TraceW, TraceH>>, <<1, TraceH>>}
\* inlet speeds 0 and 0.1
TraceInletSpeeds == {0, Unit \div 10}
TraceMaskIds == {"row", "outlet"}

\* a Float32Array / Array of n entries, all v; new Float32Array(n) throws for n < 0
Filled(n, v) == [k \in 0 .. (n - 1) |-> v]
Length(a) == Cardinality(DOMAIN a)

\* the arrays callers hand to setObstacles on a w x h grid: one solid cell, a full
\* column, a full row, every cell solid, one solid cell in the last column, and
\* an array one entry too long
InputMask(id, w, h) ==
  LET n == IF w * h > 0 THEN w * h ELSE 0
      midX == w \div 2
      midY == h \div 2
  IN CASE id = "cell"   -> [k \in 0 .. (n - 1) |-> k = midY * w + midX]
       [] id = "column" -> [k \in 0 .. (n - 1) |-> w > 0 /\ k % w = midX]
       [] id = "row"    -> [k \in 0 .. (n - 1) |-> w > 0 /\ k \div w = midY]
       [] id = "all"    -> [k \in 0 .. (n - 1) |-> TRUE]
       [] id = "outlet" -> [k \in 0 .. (n - 1) |-> k = midY * w + (w - 1)]
       [] OTHER         -> [k \in 0 .. n |-> FALSE]

\* ------------------------------------------------------------------ constructor

Omega(v) == Round(Unit * Unit, 3 * v + Unit \div 2)

\* the instance new LBMSolver(w, h, v) returns, field by field, with the arrays
\* that exist beside it
NewSolver(w, h, v) ==
  LET size == w * h
      n == IF size < 0 THEN 0 ELSE size
  IN [status |-> IF size < 0 THEN "RangeError" ELSE "ok",
      width |-> w,
      height |-> h,
      viscosity |-> v,
      omega |-> Omega(v),
      rho |-> IF size < 0 THEN Filled(0, 0) ELSE Filled(n, Unit),
      ux |-> Filled(n, 0),
      uy |-> Filled(n, 0),
      bufs |-> [b \in {"A", "B"} |->
                  [i \in Dirs |-> IF b = "A" /\ size >= 0 THEN Filled(n, W[i]) ELSE Filled(n, 0)]],
      arrays |-> [id \in MaskIds \cup TraceMaskIds \cup {OwnId} |->
                    IF id = OwnId THEN Filled(n, FALSE) ELSE InputMask(id, w, h)],
      f |-> "A",
      fNew |-> "B",
      barrier |-> OwnId]

Constructor(w, h, v) ==
  LET new == NewSolver(w, h, v) IN
  /\ status = new.status
  /\ width = new.width
  /\ height = new.height
  /\ viscosity = new.viscosity
  /\ omega = new.omega
  /\ rho = new.rho
  /\ ux = new.ux
  /\ uy = new.uy
  /\ bufs = new.bufs
  /\ arrays = new.arrays
  /\ f = new.f
  /\ fNew = new.fNew
  /\ barrier = new.barrier

\* no FluidCanvas drives the solver
NoDriver ==
  /\ mounted = FALSE
  /\ props = <<>>
  /\ gl = FALSE
  /\ pending = {}
  /\ requestRef = 0
  /\ fpc = "idle"
  /\ env = <<>>
  /\ batchDone = 0
  /\ frames = 0
  /\ uploaded = <<>>
  /\ uploadedAt = <<>>
  /\ frameStart = <<>>

\* no step call is running
NoCall ==
  /\ phase = "idle"
  /\ idxAt = 0
  /\ arg = 0
  /\ fStart = bufs[f]
  /\ streamed = {}
  /\ collided = {}

\* no frame is being drawn
NoTrace ==
  /\ tpc = "idle"
  /\ startY = 0
  /\ cx = 0
  /\ cy = 0
  /\ tstep = 0
  /\ iters = 0
  /\ seed = <<>>
  /\ path = <<>>
  /\ stoppedAtSeed = FALSE

Init ==
  /\ \E d \in Dims, v \in Viscosities : Constructor(d[1], d[2], v)
  /\ NoTrace
  /\ NoCall
  /\ NoDriver
  /\ lastArg = OwnId
  /\ steps = 0
  /\ allRest = TRUE
  /\ maskLate = FALSE
  /\ last = <<>>
  /\ pre = [ux |-> ux, uy |-> uy, rho |-> rho]
  /\ ctorViscosity = viscosity
  /\ maskAsPassed = arrays[barrier]
  /\ lastWritten = "none"

\* ------------------------------------------------------------------ setObstacles, setViscosity

\* the fields and history setViscosity leaves alone
ViscosityFrame ==
  /\ UNCHANGED <<status, width, height, rho, ux, uy, bufs, f, fNew, arrays, barrier>>
  /\ UNCHANGED <<lastArg, steps, allRest, maskLate, last, pre, ctorViscosity, maskAsPassed,
                 lastWritten>>

\* a faulty variant of setViscosity: omega is not recomputed
setViscosityKeepsOmega(v) ==
  /\ status = "ok"
  /\ viscosity' = v
  /\ UNCHANGED omega
  /\ ViscosityFrame

\* a faulty variant of setObstacles: the array is installed without the length test
setObstaclesUnchecked(id) ==
  /\ status = "ok"
  /\ lastArg' = id
  /\ barrier' = id
  /\ maskAsPassed' = arrays[id]
  /\ maskLate' = (maskLate \/ steps > 0)
  /\ UNCHANGED <<status, width, height, viscosity, omega, rho, ux, uy, bufs, f, fNew, arrays>>
  /\ UNCHANGED <<steps, allRest, last, pre, ctorViscosity, lastWritten>>

setObstacles(id) ==
  /\ status = "ok"
  /\ lastArg' = id
  /\ IF Length(arrays[id]) # width * height
     THEN UNCHANGED <<barrier, maskLate, maskAsPassed>>
     ELSE /\ barrier' = id
          /\ maskAsPassed' = arrays[id]
          /\ maskLate' = (maskLate \/ steps > 0)
  /\ UNCHANGED <<status, width, height, viscosity, omega, rho, ux, uy, bufs, f, fNew, arrays>>
  /\ UNCHANGED <<steps, allRest, last, pre, ctorViscosity, lastWritten>>

setViscosity(v) ==
  /\ status = "ok"
  /\ viscosity' = v
  /\ omega' = Omega(v)
  /\ ViscosityFrame

\* ------------------------------------------------------------------ step

\* a faulty variant of EquilibriumBracket: the eu^2 term with coefficient 3, not 4.5
EquilibriumBracketLowOrder(i, vx, vy) ==
  LET eu == EX[i] * vx + EY[i] * vy
      uv == vx * vx + vy * vy
  IN 2 * Unit * Unit + 6 * Unit * eu + 6 * eu * eu - 3 * uv

\* 1 + 3 eu + 4.5 eu^2 - 1.5 uv as an exact count of 1/(2 Unit^2), for eu and uv
\* computed from velocities in counts of 1/Unit
EquilibriumBracket(i, vx, vy) ==
  LET eu == EX[i] * vx + EY[i] * vy
      uv == vx * vx + vy * vy
  IN 2 * Unit * Unit + 6 * Unit * eu + 9 * eu * eu - 3 * uv

\* W[i] * rho * (1 + 3 eu + 4.5 eu^2 - 1.5 uv)
computeEquilibrium(i, r, vx, vy) ==
  Round(WNum[i] * r * EquilibriumBracket(i, vx, vy), WDen[i] * 2 * Unit * Unit)

\* the cells the two loops of step visit: y in 0..h-1, x in 0..w-1
LoopCells == IF width > 0 /\ height > 0 THEN 0 .. (width * height - 1) ELSE {}
Solid(idx) == arrays[barrier][idx]
FluidCells == {idx \in LoopCells : ~Solid(idx)}
XOf(idx) == idx % width
YOf(idx) == idx \div width

\* a faulty variant of Source: the source cell is read whether or not it is solid
SourceIgnoringBarrier(idx, i) ==
  LET x == idx % width
      y == idx \div width
      srcX == x - EX[i]
      srcY == y - EY[i]
  IN IF srcX >= 0 /\ srcX < width /\ srcY >= 0 /\ srcY < height
     THEN [kind |-> "stream", cell |-> srcY * width + srcX, dir |-> i]
     ELSE IF srcX < 0
          THEN [kind |-> "inlet", cell |-> idx, dir |-> i]
          ELSE IF srcX >= width
               THEN [kind |-> "outlet", cell |-> y * width + (width - 1), dir |-> i]
               ELSE [kind |-> "topbottom", cell |-> idx, dir |-> i]

\* a faulty variant of Source: outside the grid the row is tested before the column
SourceRowFirst(idx, i) ==
  LET x == XOf(idx)
      y == YOf(idx)
      srcX == x - EX[i]
      srcY == y - EY[i]
  IN IF srcX >= 0 /\ srcX < width /\ srcY >= 0 /\ srcY < height
     THEN IF Solid(srcY * width + srcX)
          THEN [kind |-> "bounce", cell |-> idx, dir |-> OPPOSITE[i]]
          ELSE [kind |-> "stream", cell |-> srcY * width + srcX, dir |-> i]
     ELSE IF srcY < 0 \/ srcY >= height
          THEN [kind |-> "topbottom", cell |-> idx, dir |-> i]
          ELSE IF srcX < 0
               THEN [kind |-> "inlet", cell |-> idx, dir |-> i]
               ELSE [kind |-> "outlet", cell |-> y * width + (width - 1), dir |-> i]

\* Pass 1: where the value arriving at cell idx in direction i is read from
Source(idx, i) ==
  LET x == XOf(idx)
      y == YOf(idx)
      srcX == x - EX[i]
      srcY == y - EY[i]
  IN IF srcX >= 0 /\ srcX < width /\ srcY >= 0 /\ srcY < height
     THEN IF Solid(srcY * width + srcX)
          THEN [kind |-> "bounce", cell |-> idx, dir |-> OPPOSITE[i]]
          ELSE [kind |-> "stream", cell |-> srcY * width + srcX, dir |-> i]
     ELSE IF srcX < 0
          THEN [kind |-> "inlet", cell |-> idx, dir |-> i]
          ELSE IF srcX >= width
               THEN [kind |-> "outlet", cell |-> y * width + (width - 1), dir |-> i]
               ELSE [kind |-> "topbottom", cell |-> idx, dir |-> i]

\* Pass 1: the value written to fNew[i][idx] when this.f holds cur
PullFrom(cur, idx, i, inletSpeed) ==
  LET s == Source(idx, i)
  IN IF s.kind \in {"inlet", "topbottom"}
     THEN computeEquilibrium(i, Unit, inletSpeed, 0)
     ELSE cur[s.dir][s.cell]

Pull(idx, i, inletSpeed) == PullFrom(bufs[f], idx, i, inletSpeed)

\* a faulty variant of Clamp: the velocity is stored as computed, never scaled
ClampSkipped(vx, vy) == [ux |-> vx, uy |-> vy, clamped |-> FALSE]

\* the clamp of Pass 2: (ux, uy) scaled to maxU when its length exceeds maxU
Clamp(vx, vy) ==
  LET speed == Sqrt(vx * vx + vy * vy)
  IN IF speed > maxU
     THEN [ux |-> Round(vx * maxU, speed), uy |-> Round(vy * maxU, speed), clamped |-> TRUE]
     ELSE [ux |-> vx, uy |-> vy, clamped |-> FALSE]

\* a faulty variant of Collide: the relaxation adds the whole equilibrium, not omega times it
CollideUnweighted(p) ==
  LET r == p[0] + p[1] + p[2] + p[3] + p[4] + p[5] + p[6] + p[7] + p[8]
      mx == p[1] - p[3] + p[5] - p[6] - p[7] + p[8]
      my == p[2] - p[4] + p[5] + p[6] - p[7] - p[8]
      vx == IF r > 0 THEN Round(mx * Unit, r) ELSE mx
      vy == IF r > 0 THEN Round(my * Unit, r) ELSE my
      u == Clamp(vx, vy)
  IN [rho |-> r, ux |-> u.ux, uy |-> u.uy, clamped |-> u.clamped,
      pop |-> [i \in Dirs |->
                 Round((Unit - omega) * p[i] + Unit * computeEquilibrium(i, r, u.ux, u.uy),
                       Unit)]]

\* Pass 2 on one fluid cell whose streamed populations are p
Collide(p) ==
  LET r == p[0] + p[1] + p[2] + p[3] + p[4] + p[5] + p[6] + p[7] + p[8]
      mx == p[1] - p[3] + p[5] - p[6] - p[7] + p[8]
      my == p[2] - p[4] + p[5] + p[6] - p[7] - p[8]
      vx == IF r > 0 THEN Round(mx * Unit, r) ELSE mx
      vy == IF r > 0 THEN Round(my * Unit, r) ELSE my
      u == Clamp(vx, vy)
  IN [rho |-> r, ux |-> u.ux, uy |-> u.uy, clamped |-> u.clamped,
      pop |-> [i \in Dirs |->
                 Round((Unit - omega) * p[i] + omega * computeEquilibrium(i, r, u.ux, u.uy),
                       Unit)]]

\* a faulty variant of CellStep: a solid cell is skipped and keeps the fields it had
CellStepKeepsSolid(idx, inletSpeed) ==
  IF Solid(idx)
  THEN [solid |-> TRUE, src |-> <<>>, rho |-> rho[idx], ux |-> ux[idx], uy |-> uy[idx],
        clamped |-> FALSE, pop |-> <<>>]
  ELSE LET c == Collide([i \in Dirs |-> Pull(idx, i, inletSpeed)])
       IN [solid |-> FALSE, src |-> [i \in Dirs |-> Source(idx, i)],
           rho |-> c.rho, ux |-> c.ux, uy |-> c.uy, clamped |-> c.clamped, pop |-> c.pop]

\* both passes on cell idx, with the places Pass 1 read from
CellStep(idx, inletSpeed) ==
  IF Solid(idx)
  THEN [solid |-> TRUE, src |-> <<>>, rho |-> Unit, ux |-> 0, uy |-> 0,
        clamped |-> FALSE, pop |-> <<>>]
  ELSE LET c == Collide([i \in Dirs |-> Pull(idx, i, inletSpeed)])
       IN [solid |-> FALSE, src |-> [i \in Dirs |-> Source(idx, i)],
           rho |-> c.rho, ux |-> c.ux, uy |-> c.uy, clamped |-> c.clamped, pop |-> c.pop]

\* a faulty variant of StepFrame: the mask entries of the cells step resets are cleared
StepFrameClearsMask ==
  /\ arrays' = [arrays EXCEPT ![barrier] = [idx \in DOMAIN arrays[barrier] |-> FALSE]]
  /\ UNCHANGED <<status, width, height, viscosity, omega, barrier, lastArg, maskLate,
                 ctorViscosity, maskAsPassed>>

\* what step assigns nowhere
StepFrame ==
  UNCHANGED <<status, width, height, viscosity, omega, arrays, barrier, lastArg, maskLate,
              ctorViscosity, maskAsPassed>>

\* a faulty variant of SwapBuffers: the exchange without the temporary
SwapBuffersNoTemp ==
  /\ f' = fNew
  /\ fNew' = f'

\* const temp = this.f; this.f = this.fNew; this.fNew = temp
SwapBuffers ==
  /\ f' = fNew
  /\ fNew' = f

step(inletSpeed) ==
  /\ status = "ok"
  /\ last' = [idx \in LoopCells |-> CellStep(idx, inletSpeed)]
  /\ rho' = [idx \in DOMAIN rho |-> IF idx \in LoopCells THEN last'[idx].rho ELSE rho[idx]]
  /\ ux' = [idx \in DOMAIN ux |-> IF idx \in LoopCells THEN last'[idx].ux ELSE ux[idx]]
  /\ uy' = [idx \in DOMAIN uy |-> IF idx \in LoopCells THEN last'[idx].uy ELSE uy[idx]]
  /\ bufs' = [bufs EXCEPT ![fNew] =
                [i \in Dirs |-> [idx \in DOMAIN bufs[fNew][i] |->
                   IF idx \in LoopCells /\ ~Solid(idx)
                   THEN last'[idx].pop[i] ELSE bufs[fNew][i][idx]]]]
  /\ SwapBuffers
  /\ steps' = steps + 1
  /\ allRest' = (allRest /\ inletSpeed = 0)
  /\ pre' = [ux |-> ux, uy |-> uy, rho |-> rho]
  /\ lastWritten' = fNew
  /\ StepFrame

\* ------------------------------------------------------------------ step, pass by pass

\* the number of cells each pass visits
NumCells == Cardinality(LoopCells)

\* what no statement inside step assigns, and the history only whole steps change
InsideStepFrame ==
  /\ StepFrame
  /\ UNCHANGED <<f, fNew, steps, allRest, last, lastWritten>>
  /\ UNCHANGED traceVars

\* step(inletSpeed) is entered
stepBegin(inletSpeed) ==
  /\ status = "ok"
  /\ phase = "idle"
  /\ phase' = "stream"
  /\ idxAt' = 0
  /\ arg' = inletSpeed
  /\ fStart' = bufs[f]
  /\ streamed' = {}
  /\ collided' = {}
  /\ pre' = [ux |-> ux, uy |-> uy, rho |-> rho]
  /\ UNCHANGED <<rho, ux, uy, bufs>>
  /\ InsideStepFrame

\* a faulty variant of streamCell: the pulled values are written over the current buffer
streamCellInPlace ==
  /\ phase = "stream"
  /\ idxAt < NumCells
  /\ IF Solid(idxAt)
     THEN /\ ux' = [ux EXCEPT ![idxAt] = 0]
          /\ uy' = [uy EXCEPT ![idxAt] = 0]
          /\ rho' = [rho EXCEPT ![idxAt] = Unit]
          /\ UNCHANGED bufs
     ELSE /\ bufs' = [bufs EXCEPT ![f] =
                        [i \in Dirs |-> [bufs[f][i] EXCEPT ![idxAt] = Pull(idxAt, i, arg)]]]
          /\ UNCHANGED <<rho, ux, uy>>
  /\ streamed' = streamed \cup {idxAt}
  /\ idxAt' = idxAt + 1
  /\ UNCHANGED <<phase, arg, fStart, collided, pre>>
  /\ InsideStepFrame

\* Pass 1 at one cell: a solid cell is reset, a fluid cell pulls its nine populations
streamCell ==
  /\ phase = "stream"
  /\ idxAt < NumCells
  /\ IF Solid(idxAt)
     THEN /\ ux' = [ux EXCEPT ![idxAt] = 0]
          /\ uy' = [uy EXCEPT ![idxAt] = 0]
          /\ rho' = [rho EXCEPT ![idxAt] = Unit]
          /\ UNCHANGED bufs
     ELSE /\ bufs' = [bufs EXCEPT ![fNew] =
                        [i \in Dirs |-> [bufs[fNew][i] EXCEPT ![idxAt] = Pull(idxAt, i, arg)]]]
          /\ UNCHANGED <<rho, ux, uy>>
  /\ streamed' = streamed \cup {idxAt}
  /\ idxAt' = idxAt + 1
  /\ UNCHANGED <<phase, arg, fStart, collided, pre>>
  /\ InsideStepFrame

\* the loops of Pass 1 end and those of Pass 2 begin
streamEnd ==
  /\ phase = "stream"
  /\ idxAt = NumCells
  /\ phase' = "collide"
  /\ idxAt' = 0
  /\ UNCHANGED <<arg, fStart, streamed, collided, pre>>
  /\ UNCHANGED <<rho, ux, uy, bufs>>
  /\ InsideStepFrame

\* Pass 2 at one cell: a solid cell is skipped, a fluid cell gets its moments and
\* its relaxed populations
collideCell ==
  /\ phase = "collide"
  /\ idxAt < NumCells
  /\ IF Solid(idxAt)
     THEN UNCHANGED <<rho, ux, uy, bufs>>
     ELSE LET c == Collide([i \in Dirs |-> bufs[fNew][i][idxAt]])
          IN /\ rho' = [rho EXCEPT ![idxAt] = c.rho]
             /\ ux' = [ux EXCEPT ![idxAt] = c.ux]
             /\ uy' = [uy EXCEPT ![idxAt] = c.uy]
             /\ bufs' = [bufs EXCEPT ![fNew] =
                           [i \in Dirs |-> [bufs[fNew][i] EXCEPT ![idxAt] = c.pop[i]]]]
  /\ collided' = collided \cup {idxAt}
  /\ idxAt' = idxAt + 1
  /\ UNCHANGED <<phase, arg, fStart, streamed, pre>>
  /\ InsideStepFrame

\* the loops of Pass 2 end: the buffers are exchanged and step returns
stepEnd ==
  /\ phase = "collide"
  /\ idxAt = NumCells
  /\ phase' = "idle"
  /\ SwapBuffers
  /\ steps' = steps + 1
  /\ allRest' = (allRest /\ arg = 0)
  /\ lastWritten' = fNew
  /\ UNCHANGED <<idxAt, arg, fStart, streamed, collided, pre, last>>
  /\ UNCHANGED <<rho, ux, uy, bufs>>
  /\ StepFrame
  /\ UNCHANGED traceVars

PassMaskIds == {OwnId, "cell", "column"}

InitPasses ==
  /\ \E v \in Viscosities : Constructor(GridW, GridH, v)
  /\ NoTrace
  /\ NoCall
  /\ NoDriver
  /\ lastArg = OwnId
  /\ steps = 0
  /\ allRest = TRUE
  /\ maskLate = FALSE
  /\ last = <<>>
  /\ pre = [ux |-> ux, uy |-> uy, rho |-> rho]
  /\ ctorViscosity = viscosity
  /\ maskAsPassed = arrays[barrier]
  /\ lastWritten = "none"

\* the solver's calls never overlap: a call begins only when none is running
NextPasses ==
  \/ \E id \in PassMaskIds :
        /\ phase = "idle" /\ steps < MaxSteps
        /\ setObstacles(id) /\ UNCHANGED <<traceVars, passVars, driverVars>>
  \/ \E u \in InletSpeeds : steps < MaxSteps /\ stepBegin(u) /\ UNCHANGED driverVars
  \/ streamCell /\ UNCHANGED driverVars
  \/ streamEnd /\ UNCHANGED driverVars
  \/ collideCell /\ UNCHANGED driverVars
  \/ stepEnd /\ UNCHANGED driverVars

SpecPasses == InitPasses /\ [][NextPasses]_vars

\* when Pass 2 has visited every cell, the fields and the next buffer hold what
\* step, taken as one transition, computes
PassesAgreeWithStep ==
  (phase = "collide" /\ idxAt = NumCells) =>
    \A idx \in LoopCells :
      LET c == CellStep(idx, arg)
      IN /\ rho[idx] = c.rho /\ ux[idx] = c.ux /\ uy[idx] = c.uy
         /\ ~Solid(idx) => \A i \in Dirs : bufs[fNew][i][idx] = c.pop[i]

\* ------------------------------------------------------------------ specification

Next ==
  \/ \E id \in MaskIds \cup {OwnId} :
        steps < MaxSteps /\ setObstacles(id) /\ UNCHANGED <<traceVars, passVars, driverVars>>
  \/ \E v \in Viscosities : steps < MaxSteps /\ setViscosity(v) /\ UNCHANGED <<traceVars, passVars, driverVars>>
  \/ \E u \in InletSpeeds : steps < MaxSteps /\ step(u) /\ UNCHANGED <<traceVars, passVars, driverVars>>

Spec == Init /\ [][Next]_vars

\* ------------------------------------------------------------------ the caller's arrays
\*
\* setObstacles keeps the array it is given, and the caller still holds it.

OwnerMaskIds == {"cell", "wrong"}
WriteCells == {0}

\* barriers[idx] = b, by the caller that holds the array
callerWrite(id, idx, b) ==
  /\ status = "ok"
  /\ idx \in DOMAIN arrays[id]
  /\ arrays[id][idx] # b
  /\ arrays' = [arrays EXCEPT ![id][idx] = b]
  /\ UNCHANGED <<status, width, height, viscosity, omega, rho, ux, uy, bufs, f, fNew, barrier>>
  /\ UNCHANGED histVars

NextOwner ==
  \/ \E id \in OwnerMaskIds :
        steps < MaxSteps /\ setObstacles(id) /\ UNCHANGED <<traceVars, passVars, driverVars>>
  \/ \E u \in InletSpeeds : steps < MaxSteps /\ step(u) /\ UNCHANGED <<traceVars, passVars, driverVars>>
  \/ \E id \in OwnerMaskIds, idx \in WriteCells, b \in BOOLEAN :
        steps < MaxSteps /\ callerWrite(id, idx, b) /\ UNCHANGED <<traceVars, passVars, driverVars>>

SpecOwner == Init /\ [][NextOwner]_vars

\* ------------------------------------------------------------------ streamlines (FluidCanvas)

\* Positions are counts of 1/PosUnit, so that 1.001 and 0.001 are whole counts;
\* a sampled velocity is kept to 1/(Unit * SampleScale).
PosUnit == 1000
SampleScale == 100

\* Math.random() * 0.5: 0, 0.25 and 0.499
RandomOffsets == {0, PosUnit \div 4, PosUnit \div 2 - 1}

simW == width
simH == height
stride == 3
stepSize == PosUnit \div 2
firstStartY == 2
\* 0.001 as a sampled speed
stagnation == (Unit * SampleScale) \div 1000

Max(a, b) == IF a > b THEN a ELSE b
Min(a, b) == IF a < b THEN a ELSE b

\* the bilinear sample of data at (x, y)
sample(data, x, y, w) ==
  LET xx == Max(0, Min(x, w * PosUnit - (PosUnit + 1)))
      x0 == xx \div PosUnit
      y0 == y \div PosUnit
      x1 == x0 + 1
      y1 == y0 + 1
      dx == xx - x0 * PosUnit
      dy == y - y0 * PosUnit
      i00 == y0 * w + x0
      i10 == y0 * w + x1
      i01 == y1 * w + x0
      i11 == y1 * w + x1
  IN IF y0 < 0 \/ y1 * w >= Length(data) THEN 0
     ELSE IF i11 >= Length(data) THEN 0
     ELSE Round(  (data[i00] * (PosUnit - dx) + data[i10] * dx) * (PosUnit - dy)
                + (data[i01] * (PosUnit - dx) + data[i11] * dx) * dy,
                (PosUnit * PosUnit) \div SampleScale)

\* the trace loop's bounds test
OutOfBounds(x, y) ==
  x < 0 \/ x >= (simW - 1) * PosUnit \/ y < 0 \/ y >= (simH - 1) * PosUnit

\* sqrt(u*u + v*v) < 0.001 at (x, y)
Stagnant(x, y) ==
  LET u == sample(ux, x, y, simW)
      v == sample(uy, x, y, simW)
  IN u * u + v * v < stagnation * stagnation

\* solver.barrier[iy * simW + ix] at the integer cell of (x, y)
OnObstacle(x, y) ==
  LET idx == (y \div PosUnit) * simW + (x \div PosUnit)
  IN idx \in DOMAIN arrays[barrier] /\ arrays[barrier][idx]

\* the streamline block of animate is entered: beginPath, and the seed loop starts
beginStreamlines ==
  /\ status = "ok"
  /\ tpc = "idle"
  /\ tpc' = "rows"
  /\ startY' = firstStartY
  /\ seed' = <<>>
  /\ path' = <<>>
  /\ tstep' = 0
  /\ iters' = 0
  /\ UNCHANGED <<cx, cy, stoppedAtSeed>>
  /\ UNCHANGED <<solverVars, histVars, passVars>>

\* one more seed row: the trace starts at (0, startY + random offset)
seedRow(rnd) ==
  /\ tpc = "rows"
  /\ startY < simH - 2
  /\ tpc' = "loop"
  /\ cx' = 0
  /\ cy' = startY * PosUnit + rnd
  /\ seed' = <<cx', cy'>>
  /\ path' = <<>>
  /\ tstep' = 0
  /\ iters' = 0
  /\ UNCHANGED <<startY, stoppedAtSeed>>
  /\ UNCHANGED <<solverVars, histVars, passVars>>

\* no seed row is left: stroke, and animate returns
endStreamlines ==
  /\ tpc = "rows"
  /\ ~(startY < simH - 2)
  /\ tpc' = "idle"
  /\ UNCHANGED <<startY, cx, cy, tstep, iters, seed, path, stoppedAtSeed>>
  /\ UNCHANGED <<solverVars, histVars, passVars>>

\* the trace is left (the loop test failed or a break)
LeaveTrace ==
  /\ tpc' = "rows"
  /\ startY' = startY + stride
  /\ UNCHANGED <<cx, cy, tstep, seed, path>>

\* a faulty variant of traceIteration: the loop has no stop test and a looser bound
traceIterationUnbounded ==
  /\ tpc = "loop"
  /\ IF tstep > 5 * simW
     THEN LeaveTrace /\ UNCHANGED <<iters, stoppedAtSeed>>
     ELSE /\ iters' = iters + 1
          /\ cx' = cx
          /\ cy' = cy
          /\ path' = Append(path, <<cx', cy'>>)
          /\ tstep' = tstep + 1
          /\ UNCHANGED <<tpc, startY, seed, stoppedAtSeed>>
  /\ UNCHANGED <<solverVars, histVars, passVars>>

\* the loop test of a trace and, when it passes, one body of the loop;
\* maxSteps = simW * 2.5, so step < maxSteps is 2 * step < 5 * simW
traceIteration ==
  /\ tpc = "loop"
  /\ IF ~(2 * tstep < 5 * simW)
     THEN LeaveTrace /\ UNCHANGED <<iters, stoppedAtSeed>>
     ELSE /\ iters' = iters + 1
          /\ IF OutOfBounds(cx, cy) \/ Stagnant(cx, cy) \/ OnObstacle(cx, cy)
             THEN /\ LeaveTrace
                  /\ stoppedAtSeed' = (stoppedAtSeed \/ tstep = 0)
             ELSE LET u == sample(ux, cx, cy, simW)
                      v == sample(uy, cx, cy, simW)
                      speed == Sqrt(u * u + v * v)
                  IN /\ cx' = cx + Round(u * stepSize, speed)
                     /\ cy' = cy + Round(v * stepSize, speed)
                     /\ path' = Append(path, <<cx', cy'>>)
                     /\ tstep' = tstep + 1
                     /\ UNCHANGED <<tpc, startY, seed, stoppedAtSeed>>
  /\ UNCHANGED <<solverVars, histVars, passVars>>

InitTrace ==
  /\ \E d \in TraceDims : Constructor(d[1], d[2], Unit \div 10)
  /\ NoTrace
  /\ NoCall
  /\ NoDriver
  /\ lastArg = OwnId
  /\ steps = 0
  /\ allRest = TRUE
  /\ maskLate = FALSE
  /\ last = <<>>
  /\ pre = [ux |-> ux, uy |-> uy, rho |-> rho]
  /\ ctorViscosity = viscosity
  /\ maskAsPassed = arrays[barrier]
  /\ lastWritten = "none"

\* solver calls happen between frames, never inside the streamline block
NextTrace ==
  \/ \E id \in TraceMaskIds :
        tpc = "idle" /\ steps < TraceMaxSteps /\ setObstacles(id) /\ UNCHANGED <<traceVars, passVars, driverVars>>
  \/ \E u \in TraceInletSpeeds :
        tpc = "idle" /\ steps < TraceMaxSteps /\ step(u) /\ UNCHANGED <<traceVars, passVars, driverVars>>
  \/ beginStreamlines /\ UNCHANGED driverVars
  \/ \E rnd \in RandomOffsets : seedRow(rnd) /\ UNCHANGED driverVars
  \/ endStreamlines /\ UNCHANGED driverVars
  \/ traceIteration /\ UNCHANGED driverVars

SpecTrace == InitTrace /\ [][NextTrace]_vars

\* ------------------------------------------------------------------ FluidCanvas
\*
\* The component that owns the solver.  A commit is React applying new props and
\* running the effects whose dependencies changed, in the order they are declared;
\* animate is the callback of requestAnimationFrame.  Both run to completion on the
\* one thread of the page, so a commit happens only while no animate is running.

stepsPerFrame == 6
MaxFrames == 2
DriverViscosities == {Unit \div 10}
DriverMaskIds == {"outlet"}
DriverProps ==
  [isRunning : BOOLEAN, windSpeed : TraceInletSpeeds, showStreamlines : BOOLEAN,
   grid : TraceDims, viscosity : DriverViscosities, obstacles : DriverMaskIds]

\* the props after one handler of App has run: the play button, the wind slider, the
\* streamlines button, or an image processed into a grid, a mask and isRunning = true
\* (the viscosity slider is left alone: the animation effect does not depend on it)
Handlers ==
  {[props EXCEPT !.isRunning = ~props.isRunning]}
    \cup {[props EXCEPT !.windSpeed = u] : u \in TraceInletSpeeds}
    \cup {[props EXCEPT !.showStreamlines = ~props.showStreamlines]}
    \cup {[props EXCEPT !.grid = d, !.obstacles = m, !.isRunning = TRUE] :
             d \in TraceDims, m \in DriverMaskIds}

\* solverRef.current
SolverNow ==
  [status |-> status, width |-> width, height |-> height, viscosity |-> viscosity,
   omega |-> omega, rho |-> rho, ux |-> ux, uy |-> uy, bufs |-> bufs, arrays |-> arrays,
   f |-> f, fNew |-> fNew, barrier |-> barrier]

SolverBecomes(s) ==
  /\ status' = s.status
  /\ width' = s.width
  /\ height' = s.height
  /\ viscosity' = s.viscosity
  /\ omega' = s.omega
  /\ rho' = s.rho
  /\ ux' = s.ux
  /\ uy' = s.uy
  /\ bufs' = s.bufs
  /\ arrays' = s.arrays
  /\ f' = s.f
  /\ fNew' = s.fNew
  /\ barrier' = s.barrier

\* the "Initialize Solver" effect: a new solver when the grid differs, else setViscosity
Rebuilds(p) == width # p.grid[1] \/ height # p.grid[2]
SolverEffect(p) ==
  IF Rebuilds(p)
  THEN NewSolver(p.grid[1], p.grid[2], p.viscosity)
  ELSE [SolverNow EXCEPT !.viscosity = p.viscosity, !.omega = Omega(p.viscosity)]

\* the "Handle Obstacles" effect installs the mask when its length is the grid's
Installs(s, p) ==
  /\ p.obstacles # "none"
  /\ Length(s.arrays[p.obstacles]) = p.grid[1] * p.grid[2]
ObstaclesEffect(s, p) == IF Installs(s, p) THEN [s EXCEPT !.barrier = p.obstacles] ELSE s

\* requestAnimationFrame(animate): the handle is one no live request has
FreshHandle(live) == CHOOSE id \in 1..(Cardinality(live) + 2) : id \notin live /\ id # requestRef
Handles(callbacks) == {c.id : c \in callbacks}

\* a faulty variant of Cleanup: the pending request is not cancelled
CleanupKeepsRequest == pending

\* the cleanup of the animation effect: cancelAnimationFrame(requestRef.current)
Cleanup == IF requestRef # 0 THEN {c \in pending : c.id # requestRef} ELSE pending

\* the dependency list of the animation effect (renderWidth and renderHeight follow the grid)
AnimationDeps(p) == <<p.isRunning, p.windSpeed, p.showStreamlines, p.grid>>

\* React commits new props: the solver effect, the obstacles effect, then the animation
\* effect, whose cleanup runs first and which returns early without a WebGL context
commit(p) ==
  /\ mounted
  /\ fpc = "idle"
  /\ p # props
  /\ LET s == SolverEffect(p)
         obstaclesRun == p.obstacles # props.obstacles \/ p.grid # props.grid
         installed == obstaclesRun /\ Installs(s, p)
     IN /\ SolverBecomes(IF obstaclesRun THEN ObstaclesEffect(s, p) ELSE s)
        /\ lastArg' = IF installed THEN p.obstacles ELSE IF Rebuilds(p) THEN OwnId ELSE lastArg
        /\ maskLate' = IF Rebuilds(p) THEN FALSE ELSE (maskLate \/ (installed /\ steps > 0))
        /\ steps' = IF Rebuilds(p) THEN 0 ELSE steps
        /\ allRest' = (Rebuilds(p) \/ allRest)
        /\ last' = IF Rebuilds(p) THEN <<>> ELSE last
        /\ pre' = IF Rebuilds(p) THEN [ux |-> s.ux, uy |-> s.uy, rho |-> s.rho] ELSE pre
        /\ ctorViscosity' = IF Rebuilds(p) THEN p.viscosity ELSE ctorViscosity
        /\ maskAsPassed' = IF installed THEN s.arrays[p.obstacles]
                           ELSE IF Rebuilds(p) THEN s.arrays[s.barrier] ELSE maskAsPassed
        /\ lastWritten' = IF Rebuilds(p) THEN "none" ELSE lastWritten
  /\ props' = p
  /\ IF AnimationDeps(p) # AnimationDeps(props) /\ gl
     THEN LET kept == Cleanup
              id == FreshHandle(Handles(kept))
          IN /\ pending' = kept \cup {[id |-> id, env |-> p]}
             /\ requestRef' = id
     ELSE UNCHANGED <<pending, requestRef>>
  /\ UNCHANGED <<mounted, gl, fpc, env, batchDone, frames, uploaded, uploadedAt, frameStart>>
  /\ UNCHANGED <<traceVars, passVars>>

\* handleReset: App leaves the SIMULATION mode, the component unmounts and the
\* cleanup of the animation effect runs
unmount ==
  /\ mounted
  /\ fpc = "idle"
  /\ mounted' = FALSE
  /\ pending' = Cleanup
  /\ UNCHANGED <<props, gl, requestRef, fpc, env, batchDone, frames, uploaded, uploadedAt,
                 frameStart>>
  /\ UNCHANGED <<solverVars, histVars, traceVars, passVars>>

\* processImage: App enters the SIMULATION mode with a grid, a mask and isRunning
\* = true; the component mounts with fresh refs and every effect runs
mount(d, m) ==
  /\ ~mounted
  /\ fpc = "idle"
  /\ mounted' = TRUE
  /\ LET p == [props EXCEPT !.grid = d, !.obstacles = m, !.isRunning = TRUE]
         s == ObstaclesEffect(NewSolver(d[1], d[2], p.viscosity), p)
     IN /\ props' = p
        /\ SolverBecomes(s)
        /\ lastArg' = s.barrier
        /\ pre' = [ux |-> s.ux, uy |-> s.uy, rho |-> s.rho]
        /\ ctorViscosity' = p.viscosity
        /\ maskAsPassed' = s.arrays[s.barrier]
        /\ IF gl
           THEN LET id == FreshHandle(Handles(pending))
                IN /\ pending' = pending \cup {[id |-> id, env |-> p]}
                   /\ requestRef' = id
           ELSE /\ requestRef' = 0
                /\ UNCHANGED pending
  /\ steps' = 0
  /\ allRest' = TRUE
  /\ maskLate' = FALSE
  /\ last' = <<>>
  /\ lastWritten' = "none"
  /\ UNCHANGED <<gl, fpc, env, batchDone, frames, uploaded, uploadedAt, frameStart>>
  /\ UNCHANGED <<traceVars, passVars>>

\* the browser runs a requested callback: animate is entered
animateBegin ==
  /\ fpc = "idle"
  /\ frames < MaxFrames
  /\ \E c \in pending :
       /\ pending' = pending \ {c}
       /\ env' = c.env
       /\ fpc' = IF c.env.isRunning THEN "batch" ELSE "render"
  /\ batchDone' = 0
  /\ frameStart' = [steps |-> steps, solver |-> SolverNow]
  /\ UNCHANGED <<mounted, props, gl, requestRef, frames, uploaded, uploadedAt>>
  /\ UNCHANGED <<solverVars, histVars, traceVars, passVars>>

InsideBatch == UNCHANGED driverVars

\* for (i < stepsPerFrame) solver.step(config.windSpeed): one call is entered
batchStepBegin ==
  /\ fpc = "batch"
  /\ batchDone < stepsPerFrame
  /\ stepBegin(env.windSpeed)
  /\ InsideBatch

\* the call returns; after the last one of the batch animate goes on to draw
batchStepEnd ==
  /\ fpc = "batch"
  /\ stepEnd
  /\ batchDone' = batchDone + 1
  /\ fpc' = IF batchDone' < stepsPerFrame THEN "batch" ELSE "render"
  /\ UNCHANGED <<mounted, props, gl, pending, requestRef, env, frames, uploaded, uploadedAt, frameStart>>

\* a faulty variant of Drawing: the renderer also reads while the batch is running
DrawingAnytime == fpc \in {"batch", "render"}

\* the renderer's turn: the batch is over
Drawing == fpc = "render"

\* texImage2D of solver.ux and solver.uy, drawArrays, clearRect
render ==
  /\ Drawing
  /\ uploaded' = [ux |-> ux, uy |-> uy]
  /\ uploadedAt' = [phase |-> phase, batch |-> batchDone, running |-> env.isRunning]
  /\ fpc' = IF env.showStreamlines THEN "streamlines" ELSE "schedule"
  /\ UNCHANGED <<mounted, props, gl, pending, requestRef, env, batchDone, frames, frameStart>>
  /\ UNCHANGED <<solverVars, histVars, traceVars, passVars>>

\* if (showStreamlines): beginPath and the first seed row
drawStreamlines ==
  /\ fpc = "streamlines"
  /\ beginStreamlines
  /\ fpc' = "tracing"
  /\ UNCHANGED <<mounted, props, gl, pending, requestRef, env, batchDone, frames, uploaded, uploadedAt,
                 frameStart>>

\* stroke: the streamline block is over
strokeStreamlines ==
  /\ fpc = "tracing"
  /\ endStreamlines
  /\ fpc' = "schedule"
  /\ UNCHANGED <<mounted, props, gl, pending, requestRef, env, batchDone, frames, uploaded, uploadedAt,
                 frameStart>>

\* requestRef.current = requestAnimationFrame(animate), and animate returns
schedule ==
  /\ fpc = "schedule"
  /\ LET id == FreshHandle(Handles(pending))
     IN /\ pending' = pending \cup {[id |-> id, env |-> env]}
        /\ requestRef' = id
  /\ fpc' = "idle"
  /\ frames' = frames + 1
  /\ UNCHANGED <<mounted, props, gl, env, batchDone, uploaded, uploadedAt, frameStart>>
  /\ UNCHANGED <<solverVars, histVars, traceVars, passVars>>

\* the component has mounted: the effects have run once for the first props
InitFrame ==
  /\ \E p \in DriverProps, g \in BOOLEAN :
       LET s == ObstaclesEffect(NewSolver(p.grid[1], p.grid[2], p.viscosity), p)
       IN /\ mounted = TRUE
          /\ props = p
          /\ gl = g
          /\ status = s.status
          /\ width = s.width
          /\ height = s.height
          /\ viscosity = s.viscosity
          /\ omega = s.omega
          /\ rho = s.rho
          /\ ux = s.ux
          /\ uy = s.uy
          /\ bufs = s.bufs
          /\ arrays = s.arrays
          /\ f = s.f
          /\ fNew = s.fNew
          /\ barrier = s.barrier
          /\ lastArg = s.barrier
          /\ pending = IF g THEN {[id |-> 1, env |-> p]} ELSE {}
          /\ requestRef = IF g THEN 1 ELSE 0
  /\ fpc = "idle"
  /\ env = props
  /\ batchDone = 0
  /\ frames = 0
  /\ uploaded = <<>>
  /\ uploadedAt = <<>>
  /\ frameStart = <<>>
  /\ NoTrace
  /\ NoCall
  /\ steps = 0
  /\ allRest = TRUE
  /\ maskLate = FALSE
  /\ last = <<>>
  /\ pre = [ux |-> ux, uy |-> uy, rho |-> rho]
  /\ ctorViscosity = viscosity
  /\ maskAsPassed = arrays[barrier]
  /\ lastWritten = "none"

NextFrame ==
  \/ \E p \in Handlers : commit(p)
  \/ unmount
  \/ \E d \in TraceDims, m \in DriverMaskIds : mount(d, m)
  \/ animateBegin
  \/ batchStepBegin
  \/ fpc = "batch" /\ streamCell /\ InsideBatch
  \/ fpc = "batch" /\ streamEnd /\ InsideBatch
  \/ fpc = "batch" /\ collideCell /\ InsideBatch
  \/ batchStepEnd
  \/ render
  \/ drawStreamlines
  \/ \E rnd \in RandomOffsets : fpc = "tracing" /\ seedRow(rnd) /\ UNCHANGED driverVars
  \/ fpc = "tracing" /\ traceIteration /\ UNCHANGED driverVars
  \/ strokeStreamlines
  \/ schedule

SpecFrame == InitFrame /\ [][NextFrame]_vars

\* ------------------------------------------------------------------ claims

Sq(n) == n * n
WasFluid(idx) == idx \in DOMAIN last /\ ~last[idx].solid

C2_RestIsFixedPoint ==
  (allRest /\ ~maskLate) =>
     \A idx \in LoopCells : ~Solid(idx) => rho[idx] = Unit /\ ux[idx] = 0 /\ uy[idx] = 0

C2_Witness ==
  /\ steps >= 2 /\ allRest /\ ~maskLate
  /\ barrier = "cell"
  /\ \E idx \in LoopCells : WasFluid(idx) /\ \E i \in Dirs : last[idx].src[i].kind = "bounce"

\* C3: after every completed step, every cell the mask marked solid at that step
\* reports ux = 0, uy = 0 and rho = 1, whatever it held before the step.
C3_SolidCellsReset ==
  \A idx \in DOMAIN last : last[idx].solid => ux[idx] = 0 /\ uy[idx] = 0 /\ rho[idx] = Unit

\* a cell that carried a velocity when the step began and was solid at the step
C3_Witness ==
  \E idx \in DOMAIN last : last[idx].solid /\ pre.ux[idx] # 0 /\ pre.rho[idx] # Unit

\* C4: setObstacles with an array whose length differs from width*height returns
\* without error and leaves the mask and every other solver field unchanged.
C4_WrongLengthIgnored ==
  [][(lastArg' # lastArg /\ Length(arrays[lastArg']) # width * height)
       => UNCHANGED solverVars]_vars

\* a wrong-length array was offered to a solver that holds a caller's mask and has stepped
C4_Witness ==
  /\ lastArg = "wrong" /\ Length(arrays[lastArg]) # width * height
  /\ barrier = "column" /\ steps > 0 /\ status = "ok"

\* C5, as stated: constructing with width <= 0 or height <= 0 fails instead of
\* producing a usable instance.
C5_NonPositiveDimsFail == (width <= 0 \/ height <= 0) => status # "ok"

\* C7, as stated: every point a trace has given to lineTo lies inside the bounds
\* the trace loop tests, 0 <= x < width - 1 and 0 <= y < height - 1.
C7_EmittedPointsInBounds ==
  \A k \in 1 .. Len(path) : ~OutOfBounds(path[k][1], path[k][2])

\* a stop test holds at the seed of the current trace
SeedStops ==
  \/ OutOfBounds(seed[1], seed[2])
  \/ Stagnant(seed[1], seed[2])
  \/ OnObstacle(seed[1], seed[2])

\* while a frame's streamlines are drawn, a trace whose seed meets a stop test
\* has emitted no point
SeedStopEmitsNothing ==
  (tpc # "idle" /\ seed # <<>> /\ SeedStops) => path = <<>>

C9_NoFlowThroughWalls ==
  \A idx \in DOMAIN last : WasFluid(idx) =>
    \A i \in Dirs :
      LET s == last[idx].src[i] IN
      s.kind \in {"stream", "bounce", "outlet"} =>
        /\ WasFluid(s.cell)
        /\ \A c \in 0 .. (width - 1) :
             (\A y \in 0 .. (height - 1) : last[y * width + c].solid) =>
                ~(XOf(idx) < c /\ XOf(s.cell) > c) /\ ~(XOf(idx) > c /\ XOf(s.cell) < c)
        /\ \A r \in 0 .. (height - 1) :
             (\A x \in 0 .. (width - 1) : last[r * width + x].solid) =>
                ~(YOf(idx) < r /\ YOf(s.cell) > r) /\ ~(YOf(idx) > r /\ YOf(s.cell) < r)

\* a step with a full solid column, fluid on both sides of it, and a moving fluid
C9_Witness ==
  /\ steps >= 2 /\ ~allRest /\ width >= 3
  /\ \E c \in 1 .. (width - 2) :
       /\ \A y \in 0 .. (height - 1) : last[y * width + c].solid
       /\ \E a, b \in DOMAIN last :
            WasFluid(a) /\ WasFluid(b) /\ XOf(a) < c /\ XOf(b) > c /\ ux[a] # 0
            /\ \E i \in Dirs : last[a].src[i].kind = "bounce"

ShapeOk ==
  status = "ok" =>
    /\ Length(arrays[barrier]) = width * height
    /\ Length(rho) = width * height
    /\ Length(ux) = width * height
    /\ Length(uy) = width * height
    /\ f # fNew /\ {f, fNew} = DOMAIN bufs
    /\ \A b \in DOMAIN bufs : DOMAIN bufs[b] = Dirs /\
          \A i \in Dirs : Length(bufs[b][i]) = width * height

\* C10: after construction and after any sequence of setObstacles (accepted or
\* rejected), setViscosity and step calls, the mask, rho, ux, uy and the 9 arrays of
\* both population buffers have exactly width*height entries, and width and height
\* never change.
C10_ArrayShapes == []ShapeOk /\ [][width' = width /\ height' = height]_vars

\* a solver that has stepped, holds a caller's mask and was offered a wrong-length array
C10_Witness ==
  /\ status = "ok" /\ steps >= 2 /\ width * height > 0
  /\ barrier # OwnId /\ lastArg = "wrong"

\* C11: omega is 1/(3*viscosity + 0.5) of the stored viscosity in every state, and a
\* transition that completes a step or hands an array to setObstacles changes
\* neither viscosity nor omega.
C11_OmegaFollowsViscosity ==
  /\ [](omega = Omega(viscosity))
  /\ [][(steps' # steps \/ lastArg' # lastArg \/ barrier' # barrier)
          => UNCHANGED <<viscosity, omega>>]_vars

\* setViscosity has replaced the constructor's viscosity, and steps and an accepted
\* setObstacles call have happened
C11_Witness ==
  /\ status = "ok" /\ viscosity # ctorViscosity /\ omega # Omega(ctorViscosity)
  /\ steps > 0 /\ barrier # OwnId

\* the cells the solver treats as solid
SolidSet == {idx \in DOMAIN arrays[barrier] : arrays[barrier][idx]}

\* C12: a transition that completes a step leaves the set of solid cells as it was,
\* whatever the state and the inlet speed.
C12_StepKeepsMask == [][steps' # steps => SolidSet' = SolidSet]_vars

\* a step with a nonzero inlet speed has run on a grid with solid and fluid cells
C12_Witness ==
  /\ steps > 0 /\ ~allRest /\ barrier # OwnId
  /\ SolidSet # {} /\ SolidSet # LoopCells
  /\ \E idx \in LoopCells : WasFluid(idx) /\ last[idx].ux # 0

\* the state is the one the constructor left: no call has changed anything
Fresh ==
  status = "ok" /\ steps = 0 /\ lastArg = OwnId /\ barrier = OwnId /\ viscosity = ctorViscosity

\* x counts of 1/Unit are the fraction num/den
IsFraction(x, num, den) == x * den = num * Unit

C17_BufferSwap ==
  /\ [](f # fNew /\ {f, fNew} = DOMAIN bufs)
  /\ [][steps' # steps =>
          /\ f' = fNew /\ fNew' = f
          /\ bufs'[f] = bufs[f]
          /\ lastWritten' = f'
          /\ (steps > 0 => f = lastWritten)]_vars

\* two steps with flow have run: the buffer the constructor filled is current again
C17_Witness ==
  /\ steps >= 2 /\ ~allRest /\ f = "A" /\ lastWritten = "A"
  /\ bufs["A"] # bufs["B"]

\* C19, as stated: when every step so far was step(0), every cell that was fluid at
\* the last step reports rho = 1 and u = (0, 0) after it, whatever accepted
\* setObstacles calls came between the steps.
C19_RestAcrossMaskChanges ==
  allRest =>
    \A idx \in DOMAIN last :
      WasFluid(idx) => rho[idx] = Unit /\ ux[idx] = 0 /\ uy[idx] = 0

\* the sum over the nine directions of W[i] * (1 + 3 eu + 4.5 eu^2 - 1.5 uv), as an
\* exact count of 1/(72 Unit^2)
EquilibriumSum(vx, vy) ==
  LET t == [i \in Dirs |-> (36 \div WDen[i]) * WNum[i] * EquilibriumBracket(i, vx, vy)]
  IN t[0] + t[1] + t[2] + t[3] + t[4] + t[5] + t[6] + t[7] + t[8]

\* the current populations of cell idx, summed
PopulationSum(idx) ==
  LET p == [i \in Dirs |-> bufs[f][i][idx]]
  IN p[0] + p[1] + p[2] + p[3] + p[4] + p[5] + p[6] + p[7] + p[8]

\* C20: after a step, at every cell that was fluid in it, the relaxed populations
\* sum to rho in exact arithmetic: with s the equilibrium sum per unit of density,
\* (1 - omega) * rho + omega * rho * s = rho, for every omega and for the clamped
\* as for the unclamped velocity (the common factor rho is divided out).  The
\* stored populations, each rounded, sum to the stored rho within 3/2 of a count
\* per population.
C20_CollisionConservesDensity ==
  \A idx \in DOMAIN last :
    WasFluid(idx) =>
      LET one == 72 * Unit * Unit
          s == EquilibriumSum(last[idx].ux, last[idx].uy)
      IN /\ \A v \in Viscosities :
              (Unit - Omega(v)) * one + Omega(v) * s = Unit * one
         /\ (Unit - omega) * one + omega * s = Unit * one
         /\ 2 * Abs(PopulationSum(idx) - rho[idx]) <= 3 * N_DISCRETE_VELOCITIES

\* a step with flow has clamped the velocity of one fluid cell and left another,
\* moving and with a density other than 1, unclamped
C20_Witness ==
  /\ steps > 0
  /\ \E idx \in DOMAIN last : WasFluid(idx) /\ last[idx].clamped
  /\ \E idx \in DOMAIN last :
        /\ WasFluid(idx) /\ ~last[idx].clamped
        /\ last[idx].ux # 0 /\ last[idx].uy # 0 /\ last[idx].rho # Unit

\* Pass 1 of the running step call has visited every cell and Pass 2 none
AfterPass1 == phase = "collide" /\ collided = {}

\* the involution 0<->0, 1<->3, 2<->4, 5<->7, 6<->8
Reverse(i) == <<0, 3, 4, 1, 2, 7, 8, 5, 6>>[i + 1]

\* the streaming rule at fluid cell c and direction i, where equilibriumCase and
\* outletCase say, from the source coordinates, which boundary rule applies
StreamingRuleAt(c, i, equilibriumCase(_, _), outletCase(_, _)) ==
  LET sx == XOf(c) - EX[i]
      sy == YOf(c) - EY[i]
      s == sy * width + sx
      inside == sx >= 0 /\ sx < width /\ sy >= 0 /\ sy < height
      v == bufs[fNew][i][c]
  IN /\ (inside /\ ~Solid(s)) => v = fStart[i][s]
     /\ (inside /\ Solid(s)) => v = fStart[Reverse(i)][c]
     /\ (~inside /\ equilibriumCase(sx, sy)) => v = computeEquilibrium(i, Unit, arg, 0)
     /\ (~inside /\ outletCase(sx, sy)) => v = fStart[i][YOf(c) * width + (width - 1)]

ReverseIsOpposite ==
  \A i \in Dirs :
    /\ Reverse(Reverse(i)) = i
    /\ EX[Reverse(i)] = -EX[i]
    /\ EY[Reverse(i)] = -EY[i]

\* C15, as stated: after Pass 1 every fluid cell holds, per direction, the source's
\* population, its own reversed population when the source is solid, the inlet
\* equilibrium when the source is left of the grid or above or below it, and the
\* copy from the last column when the source is right of the grid.
C15_StreamingRule ==
  /\ ReverseIsOpposite
  /\ AfterPass1 =>
       \A c \in FluidCells : \A i \in Dirs :
         StreamingRuleAt(c, i,
           LAMBDA sx, sy : sx < 0 \/ sy < 0 \/ sy >= height,
           LAMBDA sx, sy : sx >= width)

\* C15, amended: the same, with the equilibrium applied above and below the grid
\* only when the source column is not right of the grid; a source right of the grid
\* gets the copy from the last column at every row, the corners included.
C15_StreamingRuleByColumnFirst ==
  /\ ReverseIsOpposite
  /\ AfterPass1 =>
       \A c \in FluidCells : \A i \in Dirs :
         StreamingRuleAt(c, i,
           LAMBDA sx, sy : sx < 0 \/ (sx < width /\ (sy < 0 \/ sy >= height)),
           LAMBDA sx, sy : sx >= width)

\* Pass 1 of a later step with inflow has run on a grid with a solid cell, and the
\* top right corner's diagonal from outside holds a value that is not the equilibrium
C15_Witness ==
  /\ AfterPass1 /\ steps >= 1 /\ arg # 0 /\ barrier = "cell"
  /\ ~Solid(width - 1)
  /\ bufs[fNew][6][width - 1] # computeEquilibrium(6, Unit, arg, 0)
  /\ \E c \in FluidCells : \E i \in Dirs : Source(c, i).kind = "bounce"

\* C16: inside a step call Pass 2 visits a cell only after Pass 1 has written the
\* next buffer of every fluid cell; no pass writes the current buffer; and so what
\* Pass 1 has stored at a cell is what the rule pulls from the current buffer as it
\* was when the call began.
C16_PassOrdering ==
  /\ collided # {} => FluidCells \subseteq streamed
  /\ phase # "idle" => bufs[f] = fStart
  /\ \A idx \in (streamed \cap FluidCells) \ collided :
       phase # "idle" =>
         \A i \in Dirs : bufs[fNew][i][idx] = PullFrom(fStart, idx, i, arg)

\* Pass 2 of a later step with inflow is under way on a grid with a solid cell
C16_Witness ==
  /\ phase = "collide" /\ collided # {} /\ collided # LoopCells
  /\ steps >= 1 /\ arg # 0 /\ barrier = "cell"
  /\ (streamed \cap FluidCells) \ collided # {}
  /\ bufs[fNew] # fStart

\* the steps the current frame has advanced the solver by
FrameAdvance == steps - frameStart.steps
BatchOf(running) == IF running THEN stepsPerFrame ELSE 0

\* C14: the renderer reads ux and uy, and every streamline is traced, only between
\* completed step calls and after the whole batch of the frame: never while a step
\* is between its two passes, and no step runs (the solver does not change) while a
\* trace is in progress.
C14_ReaderWriterSerialised ==
  /\ [](/\ uploadedAt # <<>> =>
             /\ uploadedAt.phase = "idle"
             /\ uploadedAt.batch = BatchOf(uploadedAt.running)
        /\ tpc # "idle" =>
             /\ phase = "idle"
             /\ fpc = "tracing"
             /\ batchDone = BatchOf(env.isRunning)
             /\ uploaded = [ux |-> ux, uy |-> uy])
  /\ [][tpc # "idle" => UNCHANGED <<solverVars, passVars, steps>>]_vars

\* in the second frame a streamline has advanced, after a whole batch of steps
C14_Witness ==
  /\ frames = 1
  /\ tpc = "loop"
  /\ tstep > 0
  /\ uploadedAt.batch = stepsPerFrame
  /\ FrameAdvance = stepsPerFrame

\* C18: whatever the props were changed to and when, at most one animation loop is
\* scheduled (a requested callback or a running animate), and a frame that has done
\* its work advanced the solver by exactly 6 steps if isRunning is true and left the
\* solver as it was if isRunning is false.
C18_FrameBatch ==
  /\ Cardinality(pending) <= 1
  /\ fpc # "idle" => pending = {}
  /\ fpc = "schedule" =>
       IF props.isRunning
       THEN FrameAdvance = stepsPerFrame
       ELSE FrameAdvance = 0 /\ SolverNow = frameStart.solver

\* the second frame ran a batch of 6 steps on a solver the first frame had drawn
\* without stepping it
C18_Witness ==
  /\ frames = 1
  /\ fpc = "schedule"
  /\ props.isRunning
  /\ frameStart.steps = 0
  /\ uploadedAt.batch = stepsPerFrame
  /\ FrameAdvance = stepsPerFrame

\* the source of direction i at cell c lies outside the grid in both coordinates
CornerSource(c, i) ==
  LET sx == XOf(c) - EX[i]
      sy == YOf(c) - EY[i]
  IN (sx < 0 \/ sx >= width) /\ (sy < 0 \/ sy >= height)

\* C21: after Pass 1, at a fluid cell whose source for a direction lies outside the
\* grid both horizontally and vertically, the stored value is the inlet equilibrium
\* when the source is left of the grid and the copy from the last column of the
\* cell's row when it is right of the grid; the top/bottom rule is taken only for
\* sources whose column is inside the grid.
C21_CornerPrecedence ==
  AfterPass1 =>
    \A c \in FluidCells : \A i \in Dirs :
      LET sx == XOf(c) - EX[i]
          v == bufs[fNew][i][c]
      IN /\ (CornerSource(c, i) /\ sx < 0) => v = computeEquilibrium(i, Unit, arg, 0)
         /\ (CornerSource(c, i) /\ sx >= width) =>
              v = fStart[i][YOf(c) * width + (width - 1)]
         /\ Source(c, i).kind = "topbottom" => (sx >= 0 /\ sx < width)

\* Pass 1 of a step with inflow has run: a fluid cell of the last column holds, for a
\* corner source right of the grid, a copy that is not the equilibrium, and a fluid
\* cell of the first column holds the equilibrium for a corner source left of it
C21_Witness ==
  /\ AfterPass1 /\ arg # 0 /\ width > 1
  /\ \E c \in FluidCells : \E i \in Dirs :
       /\ CornerSource(c, i) /\ XOf(c) - EX[i] >= width
       /\ bufs[fNew][i][c] # computeEquilibrium(i, Unit, arg, 0)
  /\ \E c \in FluidCells : \E i \in Dirs : CornerSource(c, i) /\ XOf(c) - EX[i] < 0

\* C22, as stated: the mask the solver uses is the array as it was when an accepted
\* setObstacles call (or the constructor) installed it, whatever the caller writes to
\* that array afterwards, and every later step treats as solid exactly the cells
\* that were solid in it then.
C22_MaskOwnership ==
  /\ [](status = "ok" => arrays[barrier] = maskAsPassed)
  /\ [][steps' # steps =>
          \A idx \in DOMAIN last' : last'[idx].solid = maskAsPassed[idx]]_vars

============================================================================
